---- MODULE Spec2Model ----
(***************************************************************************)
(* Idempotency layer of llauderesv/idempotency-example (src/server.js,     *)
(* src/sql/db_schema.sql).                                                 *)
(*                                                                         *)
(* The state is the idempotency_keys table, the wall clock, the            *)
(* connections the middleware holds, and for every request in flight its   *)
(* position in idempotencyMiddleware, in the route handler and in the      *)
(* patched res.json.  One action per awaited step of the code: everything  *)
(* between two awaits runs without interleaving on the Node event loop.    *)
(*                                                                         *)
(* Time is counted in units of 12 hours, so the 24 hour lifetime of a      *)
(* record is TTL = 2.                                                      *)
(***************************************************************************)
EXTENDS Integers, FiniteSets, Sequences, TLC

\* ------------------------------------------------------------------ bounds
\* Number of requests that arrive in one behaviour.
NumReq == 2
\* Last value of the clock.
MaxTime == 3

\* ------------------------------------------------------- program constants
\* INTERVAL '24 hours' of the insert query, in units of 12 hours.
TTL == 2

Reqs == 1..NumReq

\* Values of the Idempotency-Key header; NoKey is a request without it. The
\* keys are opaque: they are named in the order in which clients first use them.
Keys == {"K1", "K2"}
NoKey == "none"

\* ------------------------------------------------------------ JS / SQL values
\* A JavaScript value, a JSON text and SQL NULL are kept apart by their kind.
Js(v) == [kind |-> "js", v |-> v]
JsNull == Js("null")
JsUndefined == Js("undefined")
SqlNull == [kind |-> "sql", v |-> "NULL"]
\* response_status INTEGER when it is NULL.
NullStatus == 0
OkBody == Js("{success:true}")
ErrBody == Js("{error}")
ConflictBody == Js("{error:'Request is already being processed'}")
InternalBody == Js("{error:'Internal server error'}")

\* JSON.stringify(body): undefined has no JSON text, every other value has one.
JSONStringify(x) ==
    IF x = JsUndefined THEN JsUndefined ELSE [kind |-> "json", v |-> x.v]

\* JSON.parse of a JSON text.
JSONParse(t) == Js(t.v)

\* node-postgres sends an undefined query parameter as SQL NULL.
PgParam(x) ==
    IF x = JsUndefined THEN SqlNull ELSE x

\* node-postgres returns a JSONB column parsed, and SQL NULL as null.
PgColumn(c) ==
    IF c = SqlNull THEN JsNull ELSE JSONParse(c)
\* Variant: a test that takes every value read from response_body for a body.
Truthy_Always(v) ==
    TRUE

\* JavaScript truthiness of a value read from response_body.
Truthy(v) ==
    v \notin {JsNull, JsUndefined}

\* What a request can be: method, path and (serialized) body.
ReqShapes ==
    { [method |-> "POST", path |-> "/api/payment", body |-> Js("{amount:50}")],
      [method |-> "GET",  path |-> "/health",      body |-> JsUndefined],
      [method |-> "HEAD", path |-> "/health",      body |-> JsUndefined] }

\* The (statusCode, body) pairs a route handler hands to res.json: an object
\* with a success or an error status, the falsy JSON value null, and no value
\* at all (res.status(204).json()).
Outcomes ==
    { [status |-> 201, body |-> OkBody],
      [status |-> 500, body |-> ErrBody],
      [status |-> 200, body |-> JsNull],
      [status |-> 204, body |-> JsUndefined] }

NoOutcome == [status |-> 0, body |-> JsUndefined]
NoResp == [status |-> 0, body |-> Js("unsent")]
NoReq == [key |-> NoKey, method |-> "-", path |-> "-", body |-> JsUndefined]

VARIABLES
    now,        \* NOW() of the database, in TTL units
    store,      \* rows of idempotency_keys
    nextId,     \* the SERIAL sequence of idempotency_keys.id
    held,       \* requests whose middleware connection is checked out of the pool
    forwards,   \* whether the framework forwards a rejected async handler to next(err)
    req,        \* req[r]: key, method, path, body of request r (NoReq before arrival)
    pc,         \* pc[r]: position of request r
    cached,     \* cached[r]: result.rows of the check query
    patched,    \* patched[r]: res.json has been replaced by the caching wrapper
    outcome,    \* outcome[r]: res.statusCode and the body of the last res.json call
    resp,       \* resp[r]: what was sent to the client (NoResp before)
    invoked,    \* invoked[r]: next() passed the request to its route handler
    decision,   \* decision[r]: how the middleware settled r
    faults,     \* faults[r]: the steps of r that failed
    inserted,   \* history: every row ever inserted, with the request that inserted it
    swept       \* history: ids of the rows the cleanup job deleted

vars == << now, store, nextId, held, forwards, req, pc, cached, patched, outcome,
           resp, invoked, decision, faults, inserted, swept >>

\* ------------------------------------------------------------------- store
\* WHERE idempotency_key = $1 AND expires_at > NOW()   (check query)
checkQuery(k, t) ==
    { row \in store : row.idempotency_key = k /\ row.expires_at > t }

\* Variant: the table without its UNIQUE constraint.
UniqueConflict_Dropped(k) ==
    {}

\* UNIQUE (idempotency_key): the rows an insert of key k conflicts with.
UniqueConflict(k) ==
    { row \in store : row.idempotency_key = k }

\* The row the insert query writes.
NewRow(r) ==
    [ id                |-> nextId,
      idempotency_key   |-> req[r].key,
      request_method    |-> req[r].method,
      request_path      |-> req[r].path,
      request_body      |-> PgParam(JSONStringify(req[r].body)),
      response_status   |-> NullStatus,
      response_body     |-> SqlNull,
      processing_status |-> "processing",
      created_at        |-> now,
      updated_at        |-> now,
      expires_at        |-> now + TTL ]

\* INSERT ... ON CONFLICT (idempotency_key) DO NOTHING RETURNING id: the rows
\* returned.
InsertReturning(r) ==
    IF UniqueConflict(req[r].key) = {} THEN {NewRow(r)} ELSE {}

\* Variant: ON CONFLICT (idempotency_key) DO UPDATE, an upsert that overwrites
\* the row that holds the key.
insertQuery_Upsert(r) ==
    { row \in store : row.idempotency_key # req[r].key } \cup {NewRow(r)}

\* The table after the insert query: DO NOTHING leaves it as it was.
insertQuery(r) ==
    store \cup InsertReturning(r)

\* Variant: an update that files a 5xx outcome under the enum's 'failed'.
updateQuery_Failed(k, status, body) ==
    { IF row.idempotency_key = k
        THEN [row EXCEPT !.response_status = status,
                         !.response_body = PgParam(JSONStringify(body)),
                         !.processing_status =
                             IF status >= 500 THEN "failed" ELSE "completed",
                         !.updated_at = now]
        ELSE row : row \in store }
\* Variant: an update that also restarts the 24 hours of the row.
updateQuery_Extends(k, status, body) ==
    { IF row.idempotency_key = k
        THEN [row EXCEPT !.response_status = status,
                         !.response_body = PgParam(JSONStringify(body)),
                         !.processing_status = "completed",
                         !.updated_at = now,
                         !.expires_at = now + TTL]
        ELSE row : row \in store }

\* UPDATE ... SET response_status, response_body, processing_status, updated_at
\* WHERE idempotency_key = $3: the table after the update.
updateQuery(k, status, body) ==
    { IF row.idempotency_key = k
        THEN [row EXCEPT !.response_status = status,
                         !.response_body = PgParam(JSONStringify(body)),
                         !.processing_status = "completed",
                         !.updated_at = now]
        ELSE row : row \in store }

\* Variant: a cleanup that deletes the rows that have not expired yet.
DeleteQuery_Unexpired ==
    { row \in store : row.expires_at > now }

\* Variant: a cleanup that also deletes the rows expiring at this very instant.
DeleteQuery_Inclusive ==
    { row \in store : row.expires_at <= now }
\* Variant: a cleanup that spares the expired rows still marked processing.
DeleteQuery_Completed ==
    { row \in store : row.expires_at < now /\ row.processing_status = "completed" }

\* DELETE FROM idempotency_keys WHERE expires_at < NOW(): the rows deleted.
DeleteQuery ==
    { row \in store : row.expires_at < now }

\* ---------------------------------------------------------------- responses
\* res.status(s).json(b) on the unpatched res.json: what the client receives.
originalJson(s, b) ==
    [status |-> s, body |-> JSONStringify(b)]

ConflictResp == originalJson(409, ConflictBody)

\* The error handling middleware's res.status(500).json(...).
ErrorOutcome == [status |-> 500, body |-> InternalBody]

Init ==
    /\ now = 0
    /\ store = {}
    /\ nextId = 1
    /\ held = {}
    /\ forwards \in BOOLEAN
    /\ req = [r \in Reqs |-> NoReq]
    /\ pc = [r \in Reqs |-> "idle"]
    /\ cached = [r \in Reqs |-> {}]
    /\ patched = [r \in Reqs |-> FALSE]
    /\ outcome = [r \in Reqs |-> NoOutcome]
    /\ resp = [r \in Reqs |-> NoResp]
    /\ invoked = [r \in Reqs |-> FALSE]
    /\ decision = [r \in Reqs |-> "none"]
    /\ faults = [r \in Reqs |-> {}]
    /\ inserted = {}
    /\ swept = {}

\* ------------------------------------------------------------- middleware
\* Line 21: the middleware steps aside.
Bypass(k, method) ==
    k = NoKey \/ method = "GET"

\* res.status(o.status).json(o.body) for request r: the patched res.json awaits
\* the update query before anything is sent, the original one sends at once.
ResJson(r, o, nextPc) ==
    /\ outcome' = [outcome EXCEPT ![r] = o]
    /\ IF patched[r]
         THEN /\ pc' = [pc EXCEPT ![r] = "complete"]
              /\ UNCHANGED resp
         ELSE /\ pc' = [pc EXCEPT ![r] = nextPc]
              /\ resp' = [resp EXCEPT ![r] = originalJson(o.status, o.body)]

\* A request arrives (requests are numbered in the order they arrive).
Arrive(r, k, shape) ==
    /\ pc[r] = "idle"
    /\ \A q \in 1..(r - 1) : pc[q] # "idle"
    /\ k = "K2" => \E q \in 1..(r - 1) : req[q].key = "K1"
    /\ req' = [req EXCEPT ![r] = [key |-> k, method |-> shape.method,
                                  path |-> shape.path, body |-> shape.body]]
    /\ IF Bypass(k, shape.method)
         THEN /\ pc' = [pc EXCEPT ![r] = "handler"]
              /\ invoked' = [invoked EXCEPT ![r] = TRUE]
              /\ decision' = [decision EXCEPT ![r] = "bypass"]
         ELSE /\ pc' = [pc EXCEPT ![r] = "connect"]
              /\ UNCHANGED << invoked, decision >>
    /\ UNCHANGED << now, store, nextId, held, forwards, cached, patched, outcome,
                    resp, faults, inserted, swept >>

\* Line 25: const client = await pool.connect().
Connect(r) ==
    /\ pc[r] = "connect"
    /\ held' = held \cup {r}
    /\ pc' = [pc EXCEPT ![r] = "lookup"]
    /\ UNCHANGED << now, store, nextId, forwards, req, cached, patched, outcome,
                    resp, invoked, decision, faults, inserted, swept >>

\* Line 25 rejects. The await is outside the try block, so the middleware's
\* promise rejects: a framework that forwards rejections hands the error to the
\* error handling middleware, another one leaves the request unanswered.
ConnectFail(r) ==
    /\ pc[r] = "connect"
    /\ faults' = [faults EXCEPT ![r] = @ \cup {"connect"}]
    /\ decision' = [decision EXCEPT ![r] = "error"]
    /\ IF forwards
         THEN ResJson(r, ErrorOutcome, "done")
         ELSE /\ pc' = [pc EXCEPT ![r] = "hung"]
              /\ UNCHANGED << outcome, resp >>
    /\ UNCHANGED << now, store, nextId, held, forwards, req, cached, patched,
                    invoked, inserted, swept >>

\* Lines 36-52: the check query and what the middleware does with its rows.
Lookup(r) ==
    /\ pc[r] = "lookup"
    /\ LET rows == checkQuery(req[r].key, now) IN
       /\ cached' = [cached EXCEPT ![r] = rows]
       /\ \/ /\ rows = {}
             /\ pc' = [pc EXCEPT ![r] = "insert"]
             /\ UNCHANGED << outcome, resp, decision >>
          \/ \E c \in rows :
               IF c.processing_status = "processing"
                 THEN /\ ResJson(r, [status |-> 409, body |-> ConflictBody], "done")
                      /\ decision' = [decision EXCEPT ![r] = "conflict"]
                 ELSE IF Truthy(PgColumn(c.response_body))
                 THEN /\ ResJson(r, [status |-> c.response_status,
                                     body |-> PgColumn(c.response_body)], "done")
                      /\ decision' = [decision EXCEPT ![r] = "replay"]
                 ELSE /\ pc' = [pc EXCEPT ![r] = "insert"]
                      /\ UNCHANGED << outcome, resp, decision >>
    /\ UNCHANGED << now, store, nextId, held, forwards, req, patched, invoked,
                    faults, inserted, swept >>

\* Lines 111-115: a query of the middleware threw; the connection is released
\* and the error goes to the error handling middleware.
Catch(r, step) ==
    /\ faults' = [faults EXCEPT ![r] = @ \cup {step}]
    /\ held' = held \ {r}
    /\ decision' = [decision EXCEPT ![r] = "error"]
    /\ ResJson(r, ErrorOutcome, "done")
    /\ UNCHANGED << now, store, nextId, forwards, req, cached, patched, invoked,
                    inserted, swept >>

\* Line 36 throws.
LookupFail(r) ==
    /\ pc[r] = "lookup"
    /\ Catch(r, "lookup")

\* Lines 69-110: the insert query, the 409 of a lost insert, the patch of
\* res.json and next().
Insert(r) ==
    /\ pc[r] = "insert"
    /\ store' = insertQuery(r)
    /\ LET ret == InsertReturning(r) IN
       IF ret = {}
         THEN /\ ResJson(r, [status |-> 409, body |-> ConflictBody], "done")
              /\ decision' = [decision EXCEPT ![r] = "conflict"]
              /\ UNCHANGED << nextId, patched, invoked, inserted >>
         ELSE /\ nextId' = nextId + 1
              /\ inserted' = inserted \cup { [by |-> r, row |-> row] : row \in ret }
              /\ patched' = [patched EXCEPT ![r] = TRUE]
              /\ invoked' = [invoked EXCEPT ![r] = TRUE]
              /\ decision' = [decision EXCEPT ![r] = "new"]
              /\ pc' = [pc EXCEPT ![r] = "handler"]
              /\ UNCHANGED << outcome, resp >>
    /\ UNCHANGED << now, held, forwards, req, cached, faults, swept >>

\* Line 69 throws.
InsertFail(r) ==
    /\ pc[r] = "insert"
    /\ Catch(r, "insert")

\* ---------------------------------------------------------------- handlers
\* The route handler ends with res.status(o.status).json(o.body)
\* (lines 127, 177, 186, 200, 242, 250, 261).
HandlerRespond(r, o) ==
    /\ pc[r] = "handler"
    /\ ResJson(r, o, "done")
    /\ UNCHANGED << now, store, nextId, held, forwards, req, cached, patched,
                    invoked, decision, faults, inserted, swept >>

\* The route handler rejects before it calls res.json (pool.connect() of line
\* 132 or 205, or the ROLLBACK of line 183 or 247, throws). The handlers are
\* async: the error reaches the error handling middleware, whose res.json is
\* the patched one, only when the framework forwards rejections.
HandlerFail(r) ==
    /\ pc[r] = "handler"
    /\ faults' = [faults EXCEPT ![r] = @ \cup {"handler"}]
    /\ IF forwards
         THEN ResJson(r, ErrorOutcome, "done")
         ELSE /\ pc' = [pc EXCEPT ![r] = "hung"]
              /\ UNCHANGED << outcome, resp >>
    /\ UNCHANGED << now, store, nextId, held, forwards, req, cached, patched,
                    invoked, decision, inserted, swept >>

\* ------------------------------------------------------- patched res.json
\* Lines 86-100: the update query succeeds.
CompleteWrite(r) ==
    /\ pc[r] = "complete"
    /\ store' = updateQuery(req[r].key, outcome[r].status, outcome[r].body)
    /\ pc' = [pc EXCEPT ![r] = "respond"]
    /\ UNCHANGED << now, nextId, held, forwards, req, cached, patched, outcome,
                    resp, invoked, decision, faults, inserted, swept >>

\* Lines 101-102: the update query throws; the error is logged.
CompleteWriteFail(r) ==
    /\ pc[r] = "complete"
    /\ faults' = [faults EXCEPT ![r] = @ \cup {"complete"}]
    /\ pc' = [pc EXCEPT ![r] = "respond"]
    /\ UNCHANGED << now, store, nextId, held, forwards, req, cached, patched,
                    outcome, resp, invoked, decision, inserted, swept >>

\* Variant: a patched res.json that answers 500 when its update query threw.
Delivered_FailsRequest(r) ==
    IF "complete" \in faults[r]
      THEN originalJson(ErrorOutcome.status, ErrorOutcome.body)
      ELSE originalJson(outcome[r].status, outcome[r].body)

\* What the patched res.json finally sends (line 107).
Delivered(r) ==
    originalJson(outcome[r].status, outcome[r].body)

\* Lines 103-107: client.release() and originalJson(body).
Respond(r) ==
    /\ pc[r] = "respond"
    /\ held' = held \ {r}
    /\ resp' = [resp EXCEPT ![r] = Delivered(r)]
    /\ pc' = [pc EXCEPT ![r] = "done"]
    /\ UNCHANGED << now, store, nextId, forwards, req, cached, patched, outcome,
                    invoked, decision, faults, inserted, swept >>

\* ------------------------------------------------------------ environment
\* Time passes.
Tick ==
    /\ now < MaxTime
    /\ now' = now + 1
    /\ UNCHANGED << store, nextId, held, forwards, req, pc, cached, patched,
                    outcome, resp, invoked, decision, faults, inserted, swept >>

\* Lines 279-282: the cleanup job deletes the expired rows and logs how many.
\* It runs on its own timer (line 289), at any moment relative to the requests;
\* a run that throws (lines 283-285) deletes nothing, so no run is forced.
cleanupExpiredKeys ==
    /\ store' = store \ DeleteQuery
    /\ swept' = swept \cup { row.id : row \in DeleteQuery }
    /\ UNCHANGED << now, nextId, held, forwards, req, pc, cached, patched,
                    outcome, resp, invoked, decision, faults, inserted >>

Next ==
    \/ \E r \in Reqs, k \in Keys \cup {NoKey}, shape \in ReqShapes : Arrive(r, k, shape)
    \/ \E r \in Reqs : Connect(r)
    \/ \E r \in Reqs : ConnectFail(r)
    \/ \E r \in Reqs : Lookup(r)
    \/ \E r \in Reqs : LookupFail(r)
    \/ \E r \in Reqs : Insert(r)
    \/ \E r \in Reqs : InsertFail(r)
    \/ \E r \in Reqs, o \in Outcomes : HandlerRespond(r, o)
    \/ \E r \in Reqs : HandlerFail(r)
    \/ \E r \in Reqs : CompleteWrite(r)
    \/ \E r \in Reqs : CompleteWriteFail(r)
    \/ \E r \in Reqs : Respond(r)
    \/ Tick
    \/ cleanupExpiredKeys

Spec == Init /\ [][Next]_vars

\* Line 289: the cleanup job runs every hour for as long as the process lives,
\* and time does not stop: a cleanup that has rows to delete eventually runs.
FairSpec == Spec /\ WF_vars(cleanupExpiredKeys) /\ WF_vars(Tick)

\* ======================================================================
\* Properties
\* ======================================================================
\* The read-only methods among the modelled ones (the safe methods of HTTP).
ReadOnlyMethods == {"GET", "HEAD"}

\* The requests the middleware guards.
Guarded(r) ==
    pc[r] # "idle" /\ decision[r] # "bypass"

\* The history entries of the rows request r inserted.
Claims(r) ==
    { e \in inserted : e.by = r }

\* The lifetimes of two rows do not overlap.
Disjoint(a, b) ==
    a.created_at >= b.expires_at \/ b.created_at >= a.expires_at

\* Request r has performed the update query of the patched res.json.
Wrote(r) ==
    patched[r] /\ pc[r] \in {"respond", "done"} /\ "complete" \notin faults[r]

\* C1. At-most-once execution: a guarded request reaches its handler only
\* through a row it inserted itself, exactly one, and two rows ever inserted
\* for the same key have disjoint lifetimes [created_at, expires_at): between
\* the creation of a key's record and its expiry the handler runs at most once
\* for that key, whatever the interleaving of requests, clock and cleanup.
C1_AtMostOnce ==
    /\ \A r \in Reqs :
         Guarded(r) =>
           /\ invoked[r] <=> Cardinality(Claims(r)) = 1
           /\ Cardinality(Claims(r)) <= 1
           /\ \A e \in Claims(r) : e.row.idempotency_key = req[r].key
    /\ \A a, b \in inserted :
         a # b /\ a.row.idempotency_key = b.row.idempotency_key
           => Disjoint(a.row, b.row)

\* C1 witness: a key whose handler ran twice, the second time for a request
\* that raced with the first claim's lifetime and claimed after the sweep.
C1_Witness ==
    \E a, b \in inserted :
      /\ a.by # b.by
      /\ a.row.idempotency_key = b.row.idempotency_key
      /\ invoked[a.by] /\ invoked[b.by]
      /\ a.row.id \in swept

\* The guarded requests for key k that have performed their claim.
Claimed(k) ==
    { r \in Reqs : req[r].key = k /\ decision[r] \in {"new", "conflict", "replay"} }

\* No request has completed a record of key k and no record of k has expired.
BeforeAnyCompletes(k) ==
    /\ \A r \in Reqs : req[r].key = k => ~Wrote(r)
    /\ \A e \in inserted : e.row.idempotency_key = k => e.row.expires_at > now

\* C2. Mutual exclusion: among the requests for a key that start from an absent
\* record and perform their claim before any of them completes, exactly one
\* obtains New and every other one Conflict (409), in any interleaving of the
\* lookups and inserts.
C2_MutualExclusion ==
    \A k \in Keys :
      BeforeAnyCompletes(k) /\ Claimed(k) # {} =>
        /\ Cardinality({ r \in Claimed(k) : decision[r] = "new" }) = 1
        /\ \A r \in Claimed(k) :
             decision[r] # "new" =>
               decision[r] = "conflict" /\ resp[r] = ConflictResp /\ ~invoked[r]

\* C2 witness: two requests for one key both passed the lookup with no row
\* found, one insert won and the other lost the race.
C2_Witness ==
    \E r1, r2 \in Reqs :
      /\ r1 # r2 /\ req[r1].key = req[r2].key /\ req[r1].key \in Keys
      /\ BeforeAnyCompletes(req[r1].key)
      /\ decision[r1] = "new" /\ decision[r2] = "conflict"
      /\ cached[r2] = {} /\ pc[r2] = "done"

\* C3. Replay fidelity: a request that finds an unexpired completed record for
\* its key is answered with the stored status and body verbatim and does not
\* reach the handler, for every status and body a handler completed it with.
C3_ReplayFidelity ==
    \A r \in Reqs :
      \A c \in cached[r] :
        c.processing_status = "completed" /\ pc[r] = "done" /\ faults[r] = {}
          => /\ resp[r] = [status |-> c.response_status, body |-> c.response_body]
             /\ ~invoked[r]

\* Request r performs its insert query while the row of its key is past its
\* expires_at and still in the table.
InsertsOverExpired(r) ==
    /\ pc[r] = "insert" /\ pc'[r] # "insert" /\ "insert" \notin faults'[r]
    /\ \E row \in store : row.idempotency_key = req[r].key
    /\ \A row \in store : row.idempotency_key = req[r].key => row.expires_at < now

\* C4. Expiry visibility: a record whose expires_at is in the past counts as
\* absent, so a request that claims its key obtains New and its handler runs,
\* also while the cleanup job has not deleted the record.
C4_ExpiryVisibility ==
    [][ \A r \in Reqs :
          InsertsOverExpired(r) => decision'[r] = "new" /\ invoked'[r] ]_vars

\* Request r performs its check query and an unexpired processing row of its
\* key is in the table.
FindsProcessing(r) ==
    /\ pc[r] = "lookup" /\ pc'[r] # "lookup" /\ "lookup" \notin faults'[r]
    /\ \E row \in store :
         /\ row.idempotency_key = req[r].key
         /\ row.expires_at > now
         /\ row.processing_status = "processing"

\* Request r performs its insert query while a row holds its key.
LosesInsert(r) ==
    /\ pc[r] = "insert" /\ pc'[r] # "insert" /\ "insert" \notin faults'[r]
    /\ \E row \in store : row.idempotency_key = req[r].key

\* C5. Conflict: a guarded request that finds an unexpired processing record of
\* its key, or whose insert loses against an existing row, is answered 409 in
\* that step, leaves the table exactly as it was, and never reaches its handler.
C5_Conflict ==
    /\ [][ \A r \in Reqs :
             FindsProcessing(r) \/ LosesInsert(r) =>
               /\ decision'[r] = "conflict"
               /\ resp'[r] = ConflictResp
               /\ pc'[r] = "done"
               /\ store' = store ]_vars
    /\ [](\A r \in Reqs :
            decision[r] = "conflict" =>
              ~invoked[r] /\ resp[r] = ConflictResp /\ pc[r] = "done" /\ Claims(r) = {})

\* C5 witness: a request was answered 409 on a processing record it found
\* while the claimant's handler was still running.
C5_Witness ==
    \E r, q \in Reqs :
      /\ decision[r] = "conflict" /\ pc[r] = "done"
      /\ \E c \in cached[r] : c.processing_status = "processing"
      /\ req[q].key = req[r].key /\ pc[q] = "handler" /\ decision[q] = "new"

\* C6. Bypass: a request without an idempotency key, or with a read-only
\* method, always reaches its handler with no store interaction: no connection,
\* no check query, no insert, and no 409 or replay from the middleware.
C6_Bypass ==
    \A r \in Reqs :
      pc[r] # "idle" /\ (req[r].key = NoKey \/ req[r].method \in ReadOnlyMethods)
        => /\ decision[r] = "bypass"
           /\ invoked[r]
           /\ r \notin held
           /\ cached[r] = {} /\ Claims(r) = {}

\* The handler of request r, a New claim, failed before it produced an outcome.
HandlerFailed(r) ==
    "handler" \in faults[r] /\ decision[r] = "new"

\* Request q is a retry that found the row with this id in its check query and
\* was settled by the middleware without a store failure.
RetryThatFound(q, r, id) ==
    /\ q # r /\ req[q].key = req[r].key
    /\ pc[q] = "done" /\ faults[q] = {}
    /\ \E c \in cached[q] : c.id = id

C8_CompletionWriteFailure ==
    \A r \in Reqs :
      "complete" \in faults[r] /\ "handler" \notin faults[r] =>
        /\ pc[r] \in {"respond", "done"}
        /\ outcome[r] \in Outcomes
        /\ pc[r] = "done" =>
             resp[r] = [status |-> outcome[r].status,
                        body |-> JSONStringify(outcome[r].body)]

\* C8 witness: a New claim whose completion write failed has been answered, and
\* its record is still processing.
C8_Witness ==
    \E r \in Reqs :
      /\ "complete" \in faults[r] /\ "handler" \notin faults[r]
      /\ decision[r] = "new" /\ pc[r] = "done"
      /\ \E e \in Claims(r) : \E row \in store :
           row.id = e.row.id /\ row.processing_status = "processing"

\* C9. Store unavailable during claim: a request whose connect, check query or
\* insert query failed is answered with the failure (500) and never reaches its
\* handler.
C9_StoreUnavailable ==
    \A r \in Reqs :
      faults[r] \cap {"connect", "lookup", "insert"} # {} =>
        /\ ~invoked[r]
        /\ pc[r] = "done"
        /\ resp[r] = originalJson(ErrorOutcome.status, ErrorOutcome.body)

\* C10. Resource discipline: a guarded request that has been answered no longer
\* holds the connection it acquired, on whichever path it ended.
C10_ResourceDiscipline ==
    \A r \in Reqs :
      Guarded(r) /\ pc[r] = "done" => r \notin held

\* Request r, a New claim whose completion write did not fail, is answered in
\* this step.
DeliversNew(r) ==
    /\ pc[r] = "respond" /\ pc'[r] = "done"
    /\ decision[r] = "new" /\ "complete" \notin faults[r]

\* C11. Completion-before-response ordering: a New claim is answered only after
\* its completion write was attempted, and when that write did not fail the
\* record of the claim is, at the moment the client receives the response (and
\* unless it has been deleted by then), completed with exactly the status and
\* body of that response.
C11_CompletionBeforeResponse ==
    /\ [](\A r \in Reqs :
            decision[r] = "new" /\ resp[r] # NoResp
              => Wrote(r) \/ "complete" \in faults[r])
    /\ [][ \A r \in Reqs :
             DeliversNew(r) =>
               \A row \in store' :
                 (\E e \in Claims(r) : e.row.id = row.id) =>
                   /\ row.processing_status = "completed"
                   /\ row.response_status = resp'[r].status
                   /\ row.response_body = resp'[r].body ]_vars

\* C12. Record lifecycle: a row enters the table as processing, its status is
\* only ever processing or completed, a completed row never returns to
\* processing, and once a row is completed its response_status and
\* response_body stay as they are until the row is deleted.
C12_RecordLifecycle ==
    [][ /\ \A row \in store' :
             (\A old \in store : old.id # row.id)
               => row.processing_status = "processing"
        /\ \A old \in store : \A row \in store' :
             row.id = old.id =>
               /\ row.processing_status \in {"processing", "completed"}
               /\ old.processing_status = "completed" =>
                    /\ row.processing_status = "completed"
                    /\ row.response_status = old.response_status
                    /\ row.response_body = old.response_body ]_vars

\* Request q is a retry of request r's key whose check query returned the
\* completed row of r's claim, settled by the middleware without a store failure.
RetryOfCompleted(q, r) ==
    /\ q # r /\ req[q].key = req[r].key
    /\ pc[q] = "done" /\ faults[q] = {}
    /\ \E c \in cached[q] :
         /\ c.processing_status = "completed"
         /\ \E e \in Claims(r) : e.row.id = c.id

\* C13. Cached errors: whatever outcome the handler of a New claim produces
\* through the response, success or error status alike, its completion write
\* completes the record of the claim with it, and every retry with the same key
\* whose check query returns that completed record is answered with exactly
\* that outcome and does not reach the handler.
C13_CachedErrors ==
    /\ [][ \A r \in Reqs :
             pc[r] = "complete" /\ pc'[r] = "respond" /\ "complete" \notin faults'[r]
               => \A e \in Claims(r) : \A row \in store' :
                    row.id = e.row.id =>
                      /\ row.processing_status = "completed"
                      /\ row.response_status = outcome[r].status
                      /\ PgColumn(row.response_body) = outcome[r].body ]_vars
    /\ [](\A r, q \in Reqs :
            decision[r] = "new" /\ Wrote(r) /\ RetryOfCompleted(q, r)
              => /\ decision[q] = "replay"
                 /\ resp[q] = originalJson(outcome[r].status, outcome[r].body)
                 /\ ~invoked[q])

\* The rows of the table that the step removes.
Removed ==
    { row \in store : \A n \in store' : n.id # row.id }

\* C14. Sweep: rows leave the table only through the cleanup, which removes
\* exactly the rows with expires_at < now and leaves every other row as it was,
\* whatever the requests in flight are doing; and a request obtains New for a
\* key only when no unexpired row of that key is in the table, so a sweep never
\* lets a key with an unexpired record be claimed a second time.
C14_Sweep ==
    [][ /\ Removed # {} =>
             /\ Removed = { row \in store : row.expires_at < now }
             /\ store' = store \ Removed
        /\ \A r \in Reqs :
             decision[r] # "new" /\ decision'[r] = "new" =>
               /\ \A row \in store :
                    row.idempotency_key = req[r].key => row.expires_at <= now
               /\ \A row \in store' :
                    row.idempotency_key = req[r].key =>
                      \E e \in Claims(r)' : e.row = row ]_vars

\* C14 witness: a sweep deleted an expired row while an unexpired row of
\* another key, inserted before that sweep, stayed in the table, with its
\* claimant still in flight.
C14_Witness ==
    \E e1, e2 \in inserted :
      /\ e1.row.id \in swept /\ e2.row.id \notin swept
      /\ e2.row.created_at <= e1.row.expires_at
      /\ \E row \in store : row.id = e2.row.id /\ row.expires_at >= now
      /\ pc[e2.by] \in {"handler", "complete"}

\* Request r performs its insert query while no row holds its key.
InsertsFree(r) ==
    /\ pc[r] = "insert" /\ pc'[r] # "insert" /\ "insert" \notin faults'[r]
    /\ \A row \in store : row.idempotency_key # req[r].key

\* C15. Reaper liveness: with the hourly cleanup running and time advancing,
\* every row whose expires_at has passed is eventually deleted from the table,
\* whatever its processing status, and once no row holds the key a request that
\* claims it obtains New.
C15_ReaperLiveness ==
    /\ \A id \in 1..NumReq :
         (\E row \in store : row.id = id /\ row.expires_at < now)
           ~> (\A row \in store : row.id # id)
    /\ [][ \A r \in Reqs :
             InsertsFree(r) => decision'[r] = "new" /\ invoked'[r] ]_vars

\* C15 witness: the row of a claim whose handler never answered was deleted
\* while still processing its request, and the key has been claimed New again.
C15_Witness ==
    \E e1, e2 \in inserted :
      /\ e1.row.id \in swept /\ pc[e1.by] \in {"handler", "hung"}
      /\ e2.row.idempotency_key = e1.row.idempotency_key
      /\ e2.row.id # e1.row.id /\ decision[e2.by] = "new"
      /\ \E row \in store : row.id = e2.row.id

\* C16. Response-field invariant: in every row of the table response_status and
\* response_body are both set or both NULL, and a row in which they are set is
\* completed: a processing row carries no response.
C16_ResponseFields ==
    \A row \in store :
      /\ (row.response_status # NullStatus) <=> (row.response_body # SqlNull)
      /\ row.response_status # NullStatus => row.processing_status = "completed"
      /\ row.processing_status = "processing" =>
           row.response_status = NullStatus /\ row.response_body = SqlNull

\* C17. Key uniqueness: among the rows that have not expired no two hold the
\* same idempotency key, under every interleaving of the requests' queries;
\* the requests share nothing but the table.
C17_KeyUniqueness ==
    \A a, b \in store :
      /\ a.idempotency_key = b.idempotency_key
      /\ a.expires_at > now /\ b.expires_at > now
      => a = b

\* C17 witness: two requests of one key both saw no row in their check query
\* and both ran their insert; the table holds a single unexpired row of the
\* key, that of the claimant, whose handler is still running.
C17_Witness ==
    \E r1, r2 \in Reqs :
      /\ r1 # r2 /\ req[r1].key = req[r2].key
      /\ cached[r1] = {} /\ cached[r2] = {}
      /\ pc[r1] = "handler" /\ Claims(r1) # {}
      /\ decision[r2] = "conflict"
      /\ Cardinality({ row \in store : row.idempotency_key = req[r1].key
                                         /\ row.expires_at > now }) = 1

\* C18. Fixed lifetime: every row's expires_at is its created_at plus the TTL
\* for as long as the row exists, and no step changes a row's key, request
\* method, path and body, created_at or expires_at: the completion write
\* touches only the status, the response columns and updated_at, so it never
\* extends the replay window.
C18_FixedLifetime ==
    /\ [](\A row \in store : row.expires_at = row.created_at + TTL)
    /\ [][ \A old \in store : \A row \in store' :
             row.id = old.id =>
               /\ row.idempotency_key = old.idempotency_key
               /\ row.request_method = old.request_method
               /\ row.request_path = old.request_path
               /\ row.request_body = old.request_body
               /\ row.created_at = old.created_at
               /\ row.expires_at = old.expires_at ]_vars

\* C18 witness: a row completed some time after it was created is in the
\* table, its expiry still the creation time plus the TTL.
C18_Witness ==
    \E row \in store :
      /\ row.processing_status = "completed"
      /\ row.updated_at > row.created_at
      /\ row.expires_at = row.created_at + TTL

\* Request r performs the update query of its completion write.
CompletionWriteOf(r) ==
    pc[r] = "complete" /\ pc'[r] = "respond" /\ "complete" \notin faults'[r]

\* C19. Completion ownership: the completion write of a request modifies only
\* rows that the request's own claim inserted; a row that another request
\* inserted for the same key, after the writer's row expired and was deleted,
\* keeps its status and its cached response.
C19_CompletionOwnership ==
    [][ \A r \in Reqs :
          CompletionWriteOf(r) =>
            \A old \in store :
              (\A e \in Claims(r) : e.row.id # old.id) => old \in store' ]_vars

\* An unexpired row of key k is completed and holds no response body: the
\* column is NULL or the JSON value null.
CompletedWithoutBody(k) ==
    \E row \in store :
      /\ row.idempotency_key = k /\ row.expires_at > now
      /\ row.processing_status = "completed"
      /\ PgColumn(row.response_body) = JsNull

\* Request r performs its check query, which succeeds.
ChecksKey(r) ==
    pc[r] = "lookup" /\ pc'[r] # "lookup" /\ "lookup" \notin faults'[r]

\* Request r performs its insert query, which succeeds.
InsertsKey(r) ==
    pc[r] = "insert" /\ pc'[r] # "insert" /\ "insert" \notin faults'[r]

\* C20. Completed-without-body fallback: a guarded request whose check query
\* meets an unexpired completed row of its key without a response body is not
\* replayed and goes on to the insert; its insert, run while that row exists,
\* loses, and the request is answered 409. The handler is not invoked and the
\* table is left exactly as it was in both steps.
C20_CompletedWithoutBody ==
    /\ [][ \A r \in Reqs :
             /\ ChecksKey(r) /\ CompletedWithoutBody(req[r].key) =>
                  /\ pc'[r] = "insert" /\ decision'[r] = "none"
                  /\ resp'[r] = NoResp /\ ~invoked'[r]
                  /\ store' = store
             /\ InsertsKey(r) /\ CompletedWithoutBody(req[r].key) =>
                  /\ pc'[r] = "done" /\ decision'[r] = "conflict"
                  /\ resp'[r] = ConflictResp /\ ~invoked'[r]
                  /\ store' = store ]_vars
    /\ [](\A r \in Reqs :
            /\ decision[r] = "conflict"
            /\ \E c \in cached[r] : c.processing_status = "completed"
            => resp[r] = ConflictResp /\ ~invoked[r] /\ Claims(r) = {})

\* C20 witness: a request found a completed row whose body column is NULL, was
\* answered 409 without reaching its handler, and the row is still in the
\* table as it was found.
C20_Witness ==
    \E r \in Reqs :
      /\ decision[r] = "conflict" /\ pc[r] = "done" /\ ~invoked[r]
      /\ \E c \in cached[r] :
           /\ c.processing_status = "completed"
           /\ c.response_body = SqlNull
           /\ c \in store

=============================================================================
